---------------------------- MODULE Spec2Model ----------------------------
(***************************************************************************)
(* State-machine model of src/References/bgwxfb.py: the audio-to-pixel     *)
(* pipeline of class Bgwxfb (signal extraction, colour mapping, spatial    *)
(* interpolation, compositing, framebuffer commit) and the driver around   *)
(* it (run, the audio stream, the top-level exception handler).            *)
(*                                                                         *)
(* Numbers.  Samples, the amplitude offset and the blend ratio are real    *)
(* numbers in the program; here they are multiples of 1/Q, held as their   *)
(* numerators.  An intensity v in [0,1] is held as the fraction            *)
(* <<num, den>> = v*v, which is exact for both extraction modes (the       *)
(* spectrum magnitude is a square root).  All arithmetic is exact real     *)
(* arithmetic; the two places where the program's double rounding changes  *)
(* a hue table entry are written out in hue_lut.                           *)
(*                                                                         *)
(* A frame (height x width, row-major) is a sequence of width*height       *)
(* packed colours; the pixel of row r, column c (both from 0) is element   *)
(* r*width + c + 1.                                                        *)
(***************************************************************************)
EXTENDS Integers, Sequences, FiniteSets, TLC

\* ------------------------------------------------------------- bounds
\* Largest framebuffer width, height and pixel count explored.
MaxWidth == 3
MaxHeight == 2
MaxPixels == 4
\* Largest audio block size explored.
MaxBlock == 3
\* Denominator of the grid on which samples, offset and ratio lie.
Q == 2
\* Number of audio callbacks delivered before the exploration stops.
MaxFrames == 2

VARIABLES
  \* configuration, fixed by __init__
  width, height, blocksize,
  use_frequency_mode, use_blend_mode, use_mixed_raw, use_random_map,
  reshuffle_each_frame, use_partial_update,
  blend_ratio,        \* numerator over Q, in 0..Q
  amplitude_offset,   \* numerator over Q, in -Q..Q
  \* pipeline state
  random_map,         \* sequence of the indices 0..width*height-1
  fb_array,           \* the memory-mapped surface
  prev_frame,         \* the committer's snapshot
  frame_count,
  \* driver state
  driver,             \* "Idle", "Running", "Stopped"
  stream,             \* "none", "active", "aborted", "closed"
  mapped,             \* the framebuffer mapping is held
  \* the locals of the last audio_callback, kept for inspection
  buf, amp, rgb, interp, frame,
  strategy,           \* branch of the compositor entered: "none" before any callback
  wrote,              \* rectangle <<r0, r1, c0, c1>> the last commit wrote, <<>> if none
  fault               \* a callback has raised

config == <<width, height, blocksize, use_frequency_mode, use_blend_mode,
            use_mixed_raw, use_random_map, reshuffle_each_frame,
            use_partial_update, blend_ratio, amplitude_offset>>
locals == <<buf, amp, rgb, interp, frame, strategy, wrote>>
vars == <<config, random_map, fb_array, prev_frame, frame_count,
          driver, stream, mapped, locals, fault>>

\* ------------------------------------------------------------ helpers
n_pixels == width * height

Abs(x) == IF x < 0 THEN -x ELSE x

Min(a, b) == IF a < b THEN a ELSE b

Max(a, b) == IF a > b THEN a ELSE b

SetMax(S) == CHOOSE x \in S : \A y \in S : y <= x

SetMin(S) == CHOOSE x \in S : \A y \in S : x <= y

Fill(n, v) == [i \in 1..n |-> v]

\* floor(sqrt(x)) for 0 <= x < (hi+1)^2
ISqrt(x, hi) == CHOOSE r \in 0..hi : r * r <= x /\ (r + 1) * (r + 1) > x

\* Scale rounding up instead of down: the least r with r >= c * v
ScaleCeil(c, v) ==
  CHOOSE r \in 0..c : r * r * v[2] >= c * c * v[1] /\ (r = 0 \/ (r - 1) * (r - 1) * v[2] < c * c * v[1])

\* int(c * v): channel value c scaled by intensity v = sqrt(v[1]/v[2]), floored
Scale(c, v) == ISqrt((c * c * v[1]) \div v[2], c)

\* (r&0x1F)<<11 | (g&0x3F)<<5 | (b&0x1F)
Pack(r, g, b) == ((r % 32) * 2048) + ((g % 64) * 32) + (b % 32)

Red(c) == (c \div 2048) % 32

Green(c) == (c \div 32) % 64

Blue(c) == c % 32


\* ------------------------------------------------- 4.2 colour mapper
\* The black-and-white flag is set once, to False, and never changed.
use_black_and_white == FALSE

\* _hsv_to_rgb565_base(i/360.0) in exact arithmetic: sector i div 60,
\* fraction f = (i mod 60)/60, p = 0, q = 1-f, t = f.
HsvBaseExact(i) ==
  LET s == (i \div 60) % 6
      m == i % 60
      t31 == (m * 31) \div 60
      t63 == (m * 63) \div 60
      q31 == ((60 - m) * 31) \div 60
      q63 == ((60 - m) * 63) \div 60
  IN CASE s = 0 -> Pack(31, t63, 0)
       [] s = 1 -> Pack(q31, 63, 0)
       [] s = 2 -> Pack(0, 63, t31)
       [] s = 3 -> Pack(0, q63, 31)
       [] s = 4 -> Pack(t31, 0, 31)
       [] OTHER -> Pack(31, 0, q31)

\* The table the program builds.  In double arithmetic q*63 falls just
\* below 42 for i = 200 and just below 21 for i = 220, so int() gives one
\* less than the exact value there; every other entry is the exact one.
hue_lut(i) ==
  IF i = 200 THEN 1343
  ELSE IF i = 220 THEN 671
  ELSE HsvBaseExact(i)

\* float_to_rgb565 returning the base hue without scaling it by v
float_to_rgb565_unscaled(hnum, hden, v) ==
  hue_lut(((hnum % hden) * 360) \div hden)

\* float_to_rgb565(h, v) with h = hnum/hden and v an intensity
float_to_rgb565(hnum, hden, v) ==
  IF use_black_and_white
  THEN LET gray == Scale(31, v) % 32
       IN (gray * 2048) + (((gray * 2) * 32) + gray)
  ELSE LET base == hue_lut(((hnum % hden) * 360) \div hden)
           r5 == Red(base)
           g6 == Green(base)
           b5 == Blue(base)
       IN Pack(Scale(r5, v), Scale(g6, v), Scale(b5, v))

\* rgb = [float_to_rgb565(i/len(amp), amp[i]) for i in range(len(amp))]
ColourMap(a) ==
  [i \in 1..Len(a) |-> float_to_rgb565(i - 1, Len(a), a[i])]

\* ---------------------------------------------- 4.1 signal extractor
\* cos and sin of a multiple m of a quarter turn
Cos4(m) == CASE m % 4 = 0 -> 1 [] m % 4 = 2 -> -1 [] OTHER -> 0

Sin4(m) == CASE m % 4 = 1 -> 1 [] m % 4 = 3 -> -1 [] OTHER -> 0

RECURSIVE SumTo(_, _)
SumTo(f, n) == IF n = 0 THEN 0 ELSE f[n] + SumTo(f, n - 1)

\* |rfft(b)[k]|^2 for a block whose length divides 4 (the twiddle
\* factors are then 1, -i, -1, i and the spectrum is exact)
PowerBin(b, k) ==
  LET N == Len(b)
      re == SumTo([n \in 1..N |-> b[n] * Cos4(k * (n - 1) * (4 \div N))], N)
      im == SumTo([n \in 1..N |-> b[n] * Sin4(k * (n - 1) * (4 \div N))], N)
  IN (re * re) + (im * im)

\* frequency mode: amp = abs(rfft(buf)); amp / (amp.max() or 1.0)
Spectrum(b) ==
  LET bins == (Len(b) \div 2) + 1
      pw == [k \in 1..bins |-> PowerBin(b, k - 1)]
      top == SetMax({pw[k] : k \in 1..bins})
      maxv == IF top = 0 THEN 1 ELSE top
  IN [k \in 1..bins |-> <<pw[k], maxv>>]

\* amplitude mode: clip(abs(buf) + amplitude_offset, 0, 1)
Amplitude(b) ==
  [i \in 1..Len(b) |->
     LET a == Min(Max(Abs(b[i]) + amplitude_offset, 0), Q)
     IN <<a * a, Q * Q>>]

Extract(b) == IF use_frequency_mode THEN Spectrum(b) ELSE Amplitude(b)

\* ------------------------------------------- 4.3 spatial interpolator
\* interp_x = linspace(0, blocksize//2+1, width*height, endpoint=False):
\* point j (from 0) is j * InterpSpan / n_pixels
InterpSpan == (blocksize \div 2) + 1

\* np.interp(interp_x[j], arange(len(fp)), fp).astype(uint16)
InterpAt(fp, j) ==
  LET pos == j * InterpSpan
      lo == pos \div n_pixels
      rem == pos % n_pixels
  IN IF lo >= Len(fp) - 1
     THEN fp[Len(fp)]
     ELSE ((fp[lo + 1] * n_pixels) + ((fp[lo + 2] - fp[lo + 1]) * rem))
            \div n_pixels

Interpolate(fp) == [j \in 1..n_pixels |-> InterpAt(fp, j - 1)]

\* ---------------------------------------------------- 4.4 compositor
\* raw: interp[:n_pixels].reshape((height, width))
Raw(ip) == [k \in 1..n_pixels |-> ip[k]]

\* EvenOffset addressing row-major like the odd indices: the offset is idx
EvenOffsetRowMajor(idx) == ((idx \div width) * width) + (idx % width)

\* flat offset written for an even source index: x = idx//height,
\* y = idx%height, offset y*width + x
EvenOffset(idx) == ((idx % height) * width) + (idx \div height)

\* flat offset written for an odd source index: y = idx//width,
\* x = idx%width, offset y*width + x
OddOffset(idx) == ((idx \div width) * width) + (idx % width)

\* write_pixelwise_mixed with the two passes in the other order: the odd
\* indices' writes first, then the even indices'
write_pixelwise_mixed_even_last(ip) ==
  LET flat == Raw(ip)
      evens(o) == {idx \in 0..(n_pixels - 1) : idx % 2 = 0 /\ EvenOffset(idx) = o}
      odds(o) == {idx \in 0..(n_pixels - 1) : idx % 2 = 1 /\ OddOffset(idx) = o}
  IN [k \in 1..n_pixels |->
        IF evens(k - 1) # {} THEN flat[SetMax(evens(k - 1)) + 1]
        ELSE IF odds(k - 1) # {} THEN flat[SetMax(odds(k - 1)) + 1]
        ELSE 0]

\* write_pixelwise_mixed: zeros, then the even indices' writes, then the
\* odd indices' writes; a later write to the same offset replaces an
\* earlier one
write_pixelwise_mixed(ip) ==
  LET flat == Raw(ip)
      evens(o) == {idx \in 0..(n_pixels - 1) : idx % 2 = 0 /\ EvenOffset(idx) = o}
      odds(o) == {idx \in 0..(n_pixels - 1) : idx % 2 = 1 /\ OddOffset(idx) = o}
  IN [k \in 1..n_pixels |->
        IF odds(k - 1) # {} THEN flat[SetMax(odds(k - 1)) + 1]
        ELSE IF evens(k - 1) # {} THEN flat[SetMax(evens(k - 1)) + 1]
        ELSE 0]

\* The outcome of a call: the value it returns, or the exception it raises.
Returns(v) == [raises |-> "", value |-> v]

Raises(e) == [raises |-> e, value |-> <<>>]

\* write_blended with the two boundary returns exchanged
write_blended_swapped(ip) ==
  IF blend_ratio <= 0 THEN Returns(write_pixelwise_mixed(ip))
  ELSE IF blend_ratio >= Q THEN Returns(Raw(ip))
  ELSE Raises("AttributeError")

\* write_blended: raw at ratio <= 0, mixed at ratio >= 1; for a ratio
\* strictly between, the channels are split and the first blend statement
\* reads self._blend_inv and self._blend_coef, which no statement of the
\* class ever assigns: AttributeError
write_blended(ip) ==
  IF blend_ratio <= 0 THEN Returns(Raw(ip))
  ELSE IF blend_ratio >= Q THEN Returns(write_pixelwise_mixed(ip))
  ELSE Raises("AttributeError")

\* flat[self.random_map].reshape((height, width))
RandomFrame(ip, rm) == [k \in 1..n_pixels |-> Raw(ip)[rm[k] + 1]]

\* the if/elif chain with the blend test ahead of the random-map test
SelectStrategyBlendFirst ==
  IF use_blend_mode THEN "blend"
  ELSE IF use_random_map THEN "random"
  ELSE IF use_mixed_raw THEN "mixed"
  ELSE "raw"

\* the branch of audio_callback's if/elif chain that is entered
SelectStrategy ==
  IF use_random_map THEN "random"
  ELSE IF use_blend_mode THEN "blend"
  ELSE IF use_mixed_raw THEN "mixed"
  ELSE "raw"

\* the outcome of the entered branch: the frame composed, or the exception
Compose(ip, rm) ==
  CASE SelectStrategy = "random" -> Returns(RandomFrame(ip, rm))
    [] SelectStrategy = "blend" -> write_blended(ip)
    [] SelectStrategy = "mixed" -> Returns(write_pixelwise_mixed(ip))
    [] OTHER -> Returns(Raw(ip))

\* a draw of n indices with replacement instead of a shuffle
permutation_with_repeats(n) == [1..n -> 0..(n - 1)]

\* np.random.permutation(n): any permutation of 0..n-1
permutation(n) ==
  {p \in [1..n -> 0..(n - 1)] : \A i, j \in 1..n : i # j => p[i] # p[j]}

\* ------------------------------------------------ 4.5 frame committer
RowOf(k) == (k - 1) \div width

ColOf(k) == (k - 1) % width

\* rows = any(diff, axis=1); cols = any(diff, axis=0);
\* r0, r1 = first and last true row; c0, c1 = first and last true column
DiffRect(new_frame, old) ==
  LET diff == {k \in 1..n_pixels : new_frame[k] # old[k]}
      rows == {RowOf(k) : k \in diff}
      cols == {ColOf(k) : k \in diff}
  IN <<SetMin(rows), SetMax(rows), SetMin(cols), SetMax(cols)>>

InRect(k, rect) ==
  /\ rect[1] <= RowOf(k) /\ RowOf(k) <= rect[2]
  /\ rect[3] <= ColOf(k) /\ ColOf(k) <= rect[4]

\* WriteRect with the slices' upper ends left exclusive:
\* fb_array[r0:r1, c0:c1] = new_frame[r0:r1, c0:c1]
WriteRectHalfOpen(fb, new_frame, rect) ==
  [k \in 1..n_pixels |->
     IF /\ rect[1] <= RowOf(k) /\ RowOf(k) < rect[2]
        /\ rect[3] <= ColOf(k) /\ ColOf(k) < rect[4]
     THEN new_frame[k] ELSE fb[k]]

\* fb_array[r0:r1+1, c0:c1+1] = new_frame[r0:r1+1, c0:c1+1]
WriteRect(fb, new_frame, rect) ==
  [k \in 1..n_pixels |-> IF InRect(k, rect) THEN new_frame[k] ELSE fb[k]]

WholeRect == <<0, height - 1, 0, width - 1>>

\* prev_frame_update without its last statement: the snapshot is never
\* brought up to the new frame
prev_frame_update_stale(new_frame) ==
  IF \A k \in 1..n_pixels : new_frame[k] = prev_frame[k]
  THEN [fb |-> fb_array, prev |-> prev_frame, rect |-> <<>>]
  ELSE LET rect == DiffRect(new_frame, prev_frame)
       IN [fb |-> WriteRect(fb_array, new_frame, rect),
           prev |-> prev_frame,
           rect |-> rect]

\* prev_frame_update(new_frame): the surface, the snapshot and the
\* rectangle written (<<>> when no pixel differs and it returns at once)
prev_frame_update(new_frame) ==
  IF \A k \in 1..n_pixels : new_frame[k] = prev_frame[k]
  THEN [fb |-> fb_array, prev |-> prev_frame, rect |-> <<>>]
  ELSE LET rect == DiffRect(new_frame, prev_frame)
       IN [fb |-> WriteRect(fb_array, new_frame, rect),
           prev |-> new_frame,
           rect |-> rect]

\* the commit step of audio_callback: prev_frame_update in partial mode,
\* np.copyto(fb_array, frame) otherwise
Commit(new_frame) ==
  IF use_partial_update
  THEN prev_frame_update(new_frame)
  ELSE [fb |-> new_frame, prev |-> prev_frame, rect |-> WholeRect]

\* ------------------------------------------------------ input domains
\* A sample is full-scale negative, silent or full-scale positive.
Samples == {-Q, 0, Q}

Blocks(N) == [1..N -> Samples]

Geometries ==
  {g \in (1..MaxWidth) \X (1..MaxHeight) : g[1] * g[2] <= MaxPixels}

BlockSizes == 1..MaxBlock

\* block lengths whose spectrum PowerBin computes exactly
FFTSizes == {1, 2, 4}

Ratios == 0..Q

Offsets == (-Q)..Q

\* two outcomes of the startup shuffle: the identity and the reversal
Identity(n) == [k \in 1..n |-> k - 1]

Reversal(n) == [k \in 1..n |-> n - k]

IdentityMap(n) == {Identity(n)}

\* what the mapped device shows before run() clears it
BootPixels == {0, 65535}

\* Diagnostics are off: the once-a-second FPS report of audio_callback,
\* which also resets frame_count, never runs.
debug == FALSE

\* ------------------------------------------------------------- __init__
\* The state after construction, for a configuration drawn from the given
\* sets: the merged and clamped settings, the mapped surface with whatever
\* it shows, prev_frame zeroed; each specification draws the random map.
Setup(geoms, sizes, freqs, blends, mixeds, randoms, reshuffles, partials, ratios, offsets) ==
  /\ \E g \in geoms : width = g[1] /\ height = g[2]
  /\ use_frequency_mode \in freqs
  /\ blocksize \in {b \in sizes : use_frequency_mode => b \in FFTSizes}
  /\ use_blend_mode \in blends
  /\ use_mixed_raw \in mixeds
  /\ use_random_map \in randoms
  /\ reshuffle_each_frame \in reshuffles
  /\ use_partial_update \in partials
  /\ blend_ratio \in ratios
  /\ amplitude_offset \in offsets
  /\ \E v \in BootPixels : fb_array = Fill(width * height, v)
  /\ prev_frame = Fill(width * height, 0)
  /\ frame_count = 0
  /\ driver = "Idle"
  /\ stream = "none"
  /\ mapped = TRUE
  /\ buf = <<>> /\ amp = <<>> /\ rgb = <<>> /\ interp = <<>> /\ frame = <<>>
  /\ strategy = "none"
  /\ wrote = <<>>
  /\ fault = FALSE

\* ------------------------------------------------------------- actions
\* run() without its first statement: the stream is opened over whatever
\* the surface shows
RunKeepsSurface ==
  /\ driver = "Idle"
  /\ stream' = "active"
  /\ driver' = "Running"
  /\ UNCHANGED <<config, random_map, fb_array, prev_frame, frame_count,
                 mapped, locals, fault>>

\* run(): clear the surface, open the input stream, wait in signal.pause()
Run ==
  /\ driver = "Idle"
  /\ fb_array' = Fill(n_pixels, 0)
  /\ stream' = "active"
  /\ driver' = "Running"
  /\ UNCHANGED <<config, random_map, prev_frame, frame_count, mapped,
                 locals, fault>>

\* run() clears the surface and opening the input stream raises: the
\* exception leaves run() and reaches the handler of the main block, which
\* clears the surface, closes the mapping and the file, and exits
RunFails ==
  /\ driver = "Idle"
  /\ fb_array' = Fill(n_pixels, 0)
  /\ mapped' = FALSE
  /\ driver' = "Stopped"
  /\ UNCHANGED <<config, random_map, prev_frame, frame_count, stream,
                 locals, fault>>

\* One audio block delivered to audio_callback.  An exception leaving the
\* callback is not caught in it; it ends in the audio library's callback
\* thread, which aborts the stream, and never reaches the main thread
\* waiting in signal.pause().
AudioCallback ==
  /\ driver = "Running"
  /\ stream = "active"
  /\ frame_count < MaxFrames
  /\ \E b \in Blocks(blocksize) :
     \E rm \in (IF use_random_map /\ reshuffle_each_frame
                THEN permutation(n_pixels) ELSE {random_map}) :
     \E a \in {Extract(b)} :
     \E c \in {ColourMap(a)} :
     \E ip \in {Interpolate(c)} :
     \E composed \in {Compose(ip, rm)} :
       /\ buf' = b
       /\ amp' = a
       /\ rgb' = c
       /\ interp' = ip
       /\ random_map' = rm
       /\ strategy' = SelectStrategy
       /\ IF composed.raises # ""
          THEN /\ stream' = "aborted"
               /\ fault' = TRUE
               /\ UNCHANGED <<frame, wrote, fb_array, prev_frame, frame_count>>
          ELSE \E out \in {Commit(composed.value)} :
               /\ frame' = composed.value
               /\ fb_array' = out.fb
               /\ prev_frame' = out.prev
               /\ wrote' = out.rect
               /\ frame_count' = IF debug THEN 1 ELSE frame_count + 1
               /\ UNCHANGED <<stream, fault>>
  /\ UNCHANGED <<config, driver, mapped>>

\* A callback in which some step before the commit raises (a fault not
\* caused by the block's values): nothing is written, the exception takes
\* the same path as above.
CallbackRaises ==
  /\ driver = "Running"
  /\ stream = "active"
  /\ stream' = "aborted"
  /\ fault' = TRUE
  /\ UNCHANGED <<config, random_map, fb_array, prev_frame, frame_count,
                 driver, mapped, locals>>

\* An interrupt signal ends signal.pause() with KeyboardInterrupt: the
\* with-block closes the stream, the exception is not an Exception, so the
\* main block's handler does not run and the process ends as it is.
Interrupt ==
  /\ driver = "Running"
  /\ stream' = "closed"
  /\ mapped' = FALSE
  /\ driver' = "Stopped"
  /\ UNCHANGED <<config, random_map, fb_array, prev_frame, frame_count,
                 locals, fault>>

Next ==
  \/ Run
  \/ RunFails
  \/ AudioCallback
  \/ CallbackRaises
  \/ Interrupt

\* ------------------------------------------------------ specifications
\* Compositor and driver: amplitude mode, full commits, every combination
\* of the random, blend and mixed flags, every ratio where blending is on
\* (the default 0.5 elsewhere), the startup shuffle being the reversal
\* where the random map is on (the identity elsewhere).
Init ==
  /\ Setup(Geometries, BlockSizes, {FALSE}, BOOLEAN, BOOLEAN, BOOLEAN, {FALSE}, {FALSE}, Ratios, {0})
  /\ use_blend_mode \/ blend_ratio = Q \div 2
  /\ random_map = IF use_random_map THEN Reversal(n_pixels) ELSE Identity(n_pixels)

Spec == Init /\ [][Next]_vars

\* Committer and signal path: partial commits, both extraction modes,
\* raw and mixed compositing.
InitPartial ==
  /\ Setup(Geometries, BlockSizes, BOOLEAN, {FALSE}, BOOLEAN, {FALSE}, {FALSE}, {TRUE}, {Q \div 2}, {0})
  /\ random_map \in IdentityMap(n_pixels)

SpecPartial == InitPartial /\ [][Next]_vars

\* Random map: every outcome of the shuffle, with and without reshuffling.
InitRandom ==
  /\ Setup(Geometries, {1, 2}, {FALSE}, {FALSE}, {FALSE}, BOOLEAN, BOOLEAN, {FALSE}, {Q \div 2}, {0})
  /\ random_map \in permutation(n_pixels)

SpecRandom == InitRandom /\ [][Next]_vars

\* every width and height up to the largest, without the pixel cap
AllGeometries == (1..MaxWidth) \X (1..MaxHeight)

\* Mixed compositor: amplitude mode, full commits, the mixed frame reached
\* directly and through write_blended at ratio 1, on every geometry.
InitMixed ==
  /\ Setup(AllGeometries, BlockSizes, {FALSE}, BOOLEAN, {TRUE}, {FALSE}, {FALSE}, {FALSE}, {Q}, {0})
  /\ random_map \in IdentityMap(n_pixels)

SpecMixed == InitMixed /\ [][Next]_vars

\* the smallest surface: one pixel
OnePixel == {<<1, 1>>}

\* block sizes of the colour family: 4, whose spectrum is exact, and 5,
\* whose bins fall on hues between the primaries
ColourSizes == {4, 5}

\* amplitude offsets of the colour family: none, and one grid step down
ColourOffsets == {-1, 0}

\* Colour mapper: both extraction modes, with and without an amplitude
\* offset, so that intensities strictly between 0 and 1 and hues between
\* the primaries reach float_to_rgb565.
InitColour ==
  /\ Setup(OnePixel, ColourSizes, BOOLEAN, {FALSE}, {FALSE}, {FALSE}, {FALSE}, {FALSE}, {Q \div 2}, ColourOffsets)
  /\ random_map \in IdentityMap(n_pixels)

SpecColour == InitColour /\ [][Next]_vars

\* ------------------------------------------------------------- claims
\* a step of audio_callback that reached its commit
Committed == frame_count' = frame_count + 1

Differs(f, g) == \E k \in 1..n_pixels : f[k] # g[k]

\* C1: in partial mode, when the new frame differs from PreviousFrame and
\* r0, r1 are the first and last differing row and c0, c1 the first and
\* last differing column, the commit writes the new frame's values to
\* exactly the surface pixels of rows r0..r1 x columns c0..c1 and every
\* other surface pixel keeps the value it had.
C1_PartialWritesBoundingRect ==
  [][(use_partial_update /\ Committed /\ Differs(frame', prev_frame)) =>
       LET D == {k \in 1..n_pixels : frame'[k] # prev_frame[k]}
           r0 == SetMin({(k - 1) \div width : k \in D})
           r1 == SetMax({(k - 1) \div width : k \in D})
           c0 == SetMin({(k - 1) % width : k \in D})
           c1 == SetMax({(k - 1) % width : k \in D})
           inside(k) == /\ r0 <= (k - 1) \div width /\ (k - 1) \div width <= r1
                        /\ c0 <= (k - 1) % width /\ (k - 1) % width <= c1
       IN /\ wrote' = <<r0, r1, c0, c1>>
          /\ \A k \in 1..n_pixels :
               fb_array'[k] = IF inside(k) THEN frame'[k] ELSE fb_array[k]
     ]_vars

\* C1 witness: a second partial commit wrote a rectangle smaller than the
\* surface, and a pixel outside it still shows the colour an earlier
\* commit gave it.
C1_Witness ==
  /\ use_partial_update
  /\ frame_count = 2
  /\ wrote # <<>>
  /\ wrote # WholeRect
  /\ \E k \in 1..n_pixels : ~InRect(k, wrote) /\ fb_array[k] # 0

\* C2 (as amended): in partial mode a commit of F writes to the surface
\* exactly when F differs from PreviousFrame, and committing the frame
\* just committed once more writes nothing and leaves the surface and
\* PreviousFrame unchanged.
C2_SecondCommitIsNoOp ==
  [][(use_partial_update /\ Committed) =>
       /\ (wrote' # <<>>) <=> Differs(frame', prev_frame)
       /\ frame' = frame =>
            /\ wrote' = <<>>
            /\ fb_array' = fb_array
            /\ prev_frame' = prev_frame
     ]_vars

\* C2 witness: the second of two commits of the same non-blank frame wrote
\* nothing; the surface shows the frame, written by the first.
C2_Witness ==
  /\ use_partial_update
  /\ frame_count = 2
  /\ wrote = <<>>
  /\ \E k \in 1..n_pixels : frame[k] # 0
  /\ fb_array = frame

\* C2 (as claimed): in partial mode the first commit of a frame F always
\* writes to the surface and the second commit of the same F is a no-op.
C2_FirstCommitAlwaysWrites ==
  [][(use_partial_update /\ Committed) =>
       IF frame' = frame
       THEN wrote' = <<>> /\ fb_array' = fb_array /\ prev_frame' = prev_frame
       ELSE wrote' # <<>>
     ]_vars

\* C3: write_blended at ratio 0 returns the Raw frame (the first
\* width*height interpolated samples in row-major order) and at ratio 1
\* the Mixed frame write_pixelwise_mixed builds from the same input,
\* pixel for pixel.
C3_BlendBoundary ==
  strategy = "blend" =>
    /\ blend_ratio = 0 =>
         /\ Len(frame) = n_pixels
         /\ \A k \in 1..n_pixels : frame[k] = interp[k]
    /\ blend_ratio = Q =>
         /\ Len(frame) = n_pixels
         /\ \A k \in 1..n_pixels : frame[k] = write_pixelwise_mixed(interp)[k]

\* C3 witness: a blend at ratio 1 returned a Mixed frame that is not the
\* Raw frame.
C3_Witness ==
  /\ strategy = "blend"
  /\ blend_ratio = Q
  /\ frame = write_pixelwise_mixed(interp)
  /\ \E k \in 1..n_pixels : frame[k] # interp[k]

\* C4: after startup and after any sequence of callbacks RandomMap has
\* exactly width*height entries and each index of [0, width*height)
\* occurs in it exactly once.
C4_RandomMapIsPermutation ==
  /\ DOMAIN random_map = 1..n_pixels
  /\ \A i \in 0..(n_pixels - 1) :
       Cardinality({k \in 1..n_pixels : random_map[k] = i}) = 1

\* C4 witness: two callbacks with reshuffling on, the map now not the
\* identity, on a surface of more than two pixels.
C4_Witness ==
  /\ use_random_map
  /\ reshuffle_each_frame
  /\ frame_count = 2
  /\ n_pixels > 2
  /\ \E k \in 1..n_pixels : random_map[k] # k - 1

Blank == \A k \in 1..n_pixels : fb_array[k] = 0

\* C5: once a callback has raised, the driver does not stop with an image
\* left on the surface or the mapping held: stopped means blank and
\* released.
C5_FaultStopsBlank ==
  (fault /\ driver = "Stopped") => (Blank /\ ~mapped)

\* C6: when the colour-mapped sequence has length 1 every interpolated
\* sample equals its single value, and when its length is width*height
\* the interpolated sequence equals it element for element.
C6_InterpolationResampling ==
  rgb # <<>> =>
    /\ Len(rgb) = 1 => \A k \in 1..n_pixels : interp[k] = rgb[1]
    /\ Len(rgb) = n_pixels => \A k \in 1..n_pixels : interp[k] = rgb[k]

Silent == buf # <<>> /\ \A i \in 1..Len(buf) : buf[i] = 0

\* C7: in amplitude mode with offset 0 a silent block gives an all-zero
\* intensity sequence and all-zero colour-mapped and interpolated
\* sequences, and in full-commit mode every surface pixel is 0 after the
\* callback, for raw, mixed, blend at ratio 0 or 1, and random.
C7_SilenceIsBlack ==
  (~use_frequency_mode /\ amplitude_offset = 0 /\ Silent) =>
    /\ Len(amp) = blocksize
    /\ \A i \in 1..Len(amp) : amp[i][1] = 0 /\ rgb[i] = 0
    /\ Len(interp) = n_pixels
    /\ \A k \in 1..n_pixels : interp[k] = 0
    /\ (~use_partial_update /\ (strategy = "blend" => blend_ratio \in {0, Q})) =>
         /\ Len(frame) = n_pixels
         /\ \A k \in 1..n_pixels : frame[k] = 0 /\ fb_array[k] = 0

\* C7 witness: a silent block of the largest size went through the mixed
\* compositor in full-commit mode as the second callback.
C7_Witness ==
  /\ ~use_frequency_mode /\ amplitude_offset = 0 /\ Silent
  /\ ~use_partial_update
  /\ strategy = "mixed"
  /\ blocksize = MaxBlock
  /\ n_pixels > 1
  /\ frame_count = 2
  /\ Blank

\* C8: the strategy a callback enters is random whenever the random flag
\* is set, blend only when random is clear and blend is set, mixed only
\* when random and blend are clear and mixed is set, raw only when all
\* three are clear; and the frame is the one that strategy composes.
C8_StrategyPrecedence ==
  strategy # "none" =>
    /\ (strategy = "random") <=> use_random_map
    /\ (strategy = "blend") <=> (~use_random_map /\ use_blend_mode)
    /\ (strategy = "mixed") <=>
         (~use_random_map /\ ~use_blend_mode /\ use_mixed_raw)
    /\ (strategy = "raw") <=>
         (~use_random_map /\ ~use_blend_mode /\ ~use_mixed_raw)
    /\ strategy = "random" => frame = RandomFrame(interp, random_map)
    /\ strategy = "mixed" => frame = write_pixelwise_mixed(interp)
    /\ strategy = "raw" => frame = Raw(interp)

\* C8 witness: with all three flags set the random map composed the
\* frame, which differs from the raw one.
C8_Witness ==
  /\ use_random_map /\ use_blend_mode /\ use_mixed_raw
  /\ strategy = "random"
  /\ frame = RandomFrame(interp, random_map)
  /\ frame # Raw(interp)

\* C9: the width*height interpolation points j * span / (width*height)
\* span the bins the extractor produced: span is blockSize/2+1 in
\* frequency mode and blockSize in amplitude mode, the length of the
\* intensity sequence.
C9_InterpSpansProducedBins ==
  amp # <<>> =>
    \A j \in 0..(n_pixels - 1) : j * InterpSpan = j * Len(amp)

\* the blend of two channel values with the integer weights
\* inverse = (1-ratio)*256 and coef = ratio*256
BlendChannel(rawc, mixc) ==
  ((rawc * (((Q - blend_ratio) * 256) \div Q))
     + (mixc * ((blend_ratio * 256) \div Q))) \div 256

\* C10: for a ratio strictly between 0 and 1 write_blended returns a
\* frame whose channels are the blends of the raw and mixed channels,
\* re-masked to 5, 6 and 5 bits, each between the raw and the mixed value.
C10_BlendFormula ==
  (strategy = "blend" /\ 0 < blend_ratio /\ blend_ratio < Q) =>
    /\ Len(frame) = n_pixels
    /\ \A k \in 1..n_pixels :
         LET raw == Raw(interp)[k]
             mix == write_pixelwise_mixed(interp)[k]
             between(x, a, b) == Min(a, b) <= x /\ x <= Max(a, b)
         IN /\ Red(frame[k]) = BlendChannel(Red(raw), Red(mix)) % 32
            /\ Green(frame[k]) = BlendChannel(Green(raw), Green(mix)) % 64
            /\ Blue(frame[k]) = BlendChannel(Blue(raw), Blue(mix)) % 32
            /\ between(Red(frame[k]), Red(raw), Red(mix))
            /\ between(Green(frame[k]), Green(raw), Green(mix))
            /\ between(Blue(frame[k]), Blue(raw), Blue(mix))

\* the last callback composed its frame with write_pixelwise_mixed
MixedComposed ==
  \/ strategy = "mixed"
  \/ strategy = "blend" /\ blend_ratio = Q

\* C11: in Mixed compositing every even index idx is written at flat
\* offset (idx mod height)*width + (idx div height) and every odd idx at
\* (idx div width)*width + (idx mod width); each offset lies in
\* [0, width*height); the frame has height*width pixels.  A written sample
\* is seen at its offset unless a sample written after it went to the same
\* offset (the odd indices are written after the even ones).
C11_MixedOffsets ==
  MixedComposed =>
    /\ Len(frame) = height * width
    /\ \A idx \in 0..((width * height) - 1) :
         LET evenAt == ((idx % height) * width) + (idx \div height)
             oddAt(j) == ((j \div width) * width) + (j % width)
             o == IF idx % 2 = 0 THEN evenAt ELSE oddAt(idx)
             later == {j \in 0..((width * height) - 1) :
                         /\ j % 2 = 1
                         /\ oddAt(j) = o
                         /\ (idx % 2 = 0 \/ j > idx)}
         IN /\ 0 <= o /\ o < width * height
            /\ later = {} => frame[o + 1] = interp[idx + 1]

\* C11 witness: an even-indexed sample was moved: it shows at its
\* column-major offset, which is not its own index and where the input
\* holds another colour.
C11_Witness ==
  /\ strategy = "mixed"
  /\ width > 1 /\ height > 1
  /\ \E idx \in 0..((width * height) - 1) :
       LET o == ((idx % height) * width) + (idx \div height)
       IN /\ idx % 2 = 0
          /\ o # idx
          /\ o % 2 = 0
          /\ frame[o + 1] = interp[idx + 1]
          /\ interp[idx + 1] # interp[o + 1]
          /\ interp[idx + 1] # 0

\* x = floor(c * v) for the intensity v = sqrt(v[1]/v[2])
IsFloorOf(x, c, v) ==
  /\ x >= 0
  /\ x * x * v[2] <= c * c * v[1]
  /\ (x + 1) * (x + 1) * v[2] > c * c * v[1]

\* C12: in colour mode the colour of bin i, at position i/len and of
\* intensity v in [0,1], has red, green and blue channels
\* floor(base channel * v) masked to 5, 6 and 5 bits, base being
\* HueLUT[floor((position mod 1.0)*360)]; so intensity 1 gives the base
\* entry unchanged, intensity 0 gives 0, and no channel exceeds the base
\* hue's channel.
C12_ColourScaling ==
  (rgb # <<>> /\ ~use_black_and_white) =>
    /\ Len(rgb) = Len(amp)
    /\ \A i \in 1..Len(amp) :
         LET L == Len(amp)
             v == amp[i]
             base == hue_lut((((i - 1) % L) * 360) \div L)
             c == rgb[i]
         IN /\ 0 <= v[1] /\ v[1] <= v[2]
            /\ 0 <= c /\ c < 65536
            /\ \E r \in 0..31 : IsFloorOf(r, Red(base), v) /\ Red(c) = r % 32
            /\ \E g \in 0..63 : IsFloorOf(g, Green(base), v) /\ Green(c) = g % 64
            /\ \E b \in 0..31 : IsFloorOf(b, Blue(base), v) /\ Blue(c) = b % 32
            /\ v[1] = v[2] => c = base
            /\ v[1] = 0 => c = 0
            /\ Red(c) <= Red(base)
            /\ Green(c) <= Green(base)
            /\ Blue(c) <= Blue(base)

\* C12 witness: a bin of intensity strictly between 0 and 1 on a hue
\* between two primaries: its green channel was scaled down to a value
\* strictly between 0 and the base hue's, and the product floored is not
\* a whole number.
C12_Witness ==
  /\ rgb # <<>>
  /\ \E i \in 1..Len(amp) :
       LET L == Len(amp)
           v == amp[i]
           base == hue_lut((((i - 1) % L) * 360) \div L)
           g == Green(rgb[i])
       IN /\ 0 < v[1] /\ v[1] < v[2]
          /\ 0 < Green(base) /\ Green(base) < 63
          /\ 0 < g /\ g < Green(base)
          /\ g * g * v[2] < Green(base) * Green(base) * v[1]

\* C13: in partial mode, from run() on, after every completed callback
\* the whole surface equals PreviousFrame and both equal the frame the
\* most recent callback composed, although only bounding rectangles are
\* written.
C13_SurfaceTracksFrame ==
  (use_partial_update /\ frame_count >= 1) =>
    /\ Len(fb_array) = width * height
    /\ \A k \in 1..(width * height) :
         fb_array[k] = frame[k] /\ prev_frame[k] = frame[k]

\* C13 witness: after the second callback the surface shows the frame
\* although the commit wrote less than the whole surface, and a pixel the
\* commit did not write holds a colour of the frame.
C13_Witness ==
  /\ use_partial_update
  /\ frame_count = 2
  /\ wrote # <<>>
  /\ wrote # WholeRect
  /\ fb_array = frame
  /\ prev_frame = frame
  /\ \E k \in 1..n_pixels : ~InRect(k, wrote) /\ frame[k] # 0
  /\ \E k \in 1..n_pixels : InRect(k, wrote) /\ frame[k] # 0

\* the flat offset the sample of index idx is written at
TargetOf(idx) ==
  IF idx % 2 = 0
  THEN ((idx % height) * width) + (idx \div height)
  ELSE ((idx \div width) * width) + (idx % width)

\* how many times the colour c occurs in the sequence f
Occurrences(f, c) == Cardinality({k \in 1..Len(f) : f[k] = c})

\* C14: in the Mixed frame each odd flat offset i holds the input sample
\* i (the odd-indexed samples are written last and win a collision with
\* an even-indexed one), no two even-indexed samples go to the same
\* offset, and every offset no sample goes to holds 0.
C14_MixedCollisions ==
  MixedComposed =>
    LET N == width * height
    IN /\ \A i \in 0..(N - 1) : i % 2 = 1 => frame[i + 1] = interp[i + 1]
       /\ \A a, b \in 0..(N - 1) :
            (a % 2 = 0 /\ b % 2 = 0 /\ a # b) => TargetOf(a) # TargetOf(b)
       /\ \A o \in 0..(N - 1) :
            (\A idx \in 0..(N - 1) : TargetOf(idx) # o) => frame[o + 1] = 0

\* C14 witness: a Mixed frame that is not a permutation of its input: an
\* even-indexed sample went to an odd offset and lost it to the odd
\* sample of another colour, so its colour shows less often in the frame
\* than in the input, and an offset no sample went to holds 0 where the
\* input holds a colour.
C14_Witness ==
  /\ strategy = "mixed"
  /\ \E a \in 0..(n_pixels - 1) :
       /\ a % 2 = 0
       /\ TargetOf(a) % 2 = 1
       /\ frame[TargetOf(a) + 1] = interp[TargetOf(a) + 1]
       /\ frame[TargetOf(a) + 1] # interp[a + 1]
       /\ Occurrences(frame, interp[a + 1]) < Occurrences(interp, interp[a + 1])
  /\ \E o \in 0..(n_pixels - 1) :
       /\ \A idx \in 0..(n_pixels - 1) : TargetOf(idx) # o
       /\ frame[o + 1] = 0
       /\ interp[o + 1] # 0

=============================================================================
